---------------------------- MODULE Spec2Model ----------------------------
(***************************************************************************)
(* Getaround price prediction API (src/api/main.py) together with the      *)
(* pipeline built by src/ml/model_training.py that it loads and serves.    *)
(*                                                                         *)
(* Floating-point numbers are carried as integers in hundredths            *)
(* (7.0 is 700, 0.27 is 27); only finite values in the normal range are    *)
(* modelled.                                                               *)
(***************************************************************************)
EXTENDS Integers, Sequences, FiniteSets, TLC

(***************************************************************************)
(* Bounds of the model.                                                    *)
(***************************************************************************)
MaxBatch == 2
NumWorkers == 2

(***************************************************************************)
(* JSON values as they arrive in a request body.                           *)
(***************************************************************************)
Num(x) == [k |-> "num", n |-> x, s |-> "", b |-> FALSE]
Str(x) == [k |-> "str", n |-> 0, s |-> x, b |-> FALSE]
Bool(x) == [k |-> "bool", n |-> 0, s |-> "", b |-> x]
Null == [k |-> "null", n |-> 0, s |-> "", b |-> FALSE]

Range(f) == {f[i] : i \in DOMAIN f}

(***************************************************************************)
(* class CarFeatures: the declared fields, in declaration order.           *)
(***************************************************************************)
CarFeatures ==
    << [name |-> "mileage", type |-> "float"],
       [name |-> "engine_power", type |-> "float"],
       [name |-> "model_key", type |-> "str"],
       [name |-> "fuel", type |-> "str"],
       [name |-> "paint_color", type |-> "str"],
       [name |-> "car_type", type |-> "str"],
       [name |-> "private_parking_available", type |-> "bool"],
       [name |-> "has_gps", type |-> "bool"],
       [name |-> "has_air_conditioning", type |-> "bool"],
       [name |-> "automatic_car", type |-> "bool"],
       [name |-> "has_getaround_connect", type |-> "bool"],
       [name |-> "has_speed_regulator", type |-> "bool"],
       [name |-> "winter_tires", type |-> "bool"] >>

FieldNames == {CarFeatures[i].name : i \in DOMAIN CarFeatures}
FieldType(f) == CarFeatures[CHOOSE i \in DOMAIN CarFeatures : CarFeatures[i].name = f].type

(***************************************************************************)
(* A JSON object is a sequence of key/value pairs, in payload order.       *)
(***************************************************************************)
Keys(obj) == {obj[i].key : i \in DOMAIN obj}
Get(obj, key) == obj[CHOOSE i \in DOMAIN obj : obj[i].key = key].val

(***************************************************************************)
(* Field validation as pydantic performs it for the annotations of         *)
(* CarFeatures (lax mode, the default: the class sets no strict Config).   *)
(* ver is the major version of the installed pydantic, which the           *)
(* repository does not pin: only the str validator differs.                *)
(***************************************************************************)
NumericStrings == {"7", "0.27"}
ParseFloat(s) == IF s = "7" THEN 700 ELSE 27

TrueStrings == {"1", "on", "t", "true", "y", "yes"}
FalseStrings == {"0", "off", "f", "false", "n", "no"}

Digits == <<"0", "1", "2", "3", "4", "5", "6", "7", "8", "9">>
FormatNumber(n) ==
    IF n % 100 = 0 /\ (n \div 100) \in 0..9 THEN Digits[(n \div 100) + 1] ELSE "number"

Ok(v) == [ok |-> TRUE, val |-> v]
Fail == [ok |-> FALSE, val |-> Null]

(***************************************************************************)
(* FloatValidatorStrict is the strict-mode variant, which the class does   *)
(* not configure.                                                          *)
(***************************************************************************)
FloatValidatorStrict(v) == IF v.k = "num" THEN Ok(v) ELSE Fail

FloatValidator(v) ==
    CASE v.k = "num" -> Ok(v)
      [] v.k = "str" -> IF v.s \in NumericStrings THEN Ok(Num(ParseFloat(v.s))) ELSE Fail
      [] v.k = "bool" -> Ok(Num(IF v.b THEN 100 ELSE 0))
      [] OTHER -> Fail

StrValidator(v, ver) ==
    CASE v.k = "str" -> Ok(v)
      [] v.k = "num" -> IF ver = 1 THEN Ok(Str(FormatNumber(v.n))) ELSE Fail
      [] v.k = "bool" -> IF ver = 1 THEN Ok(Str(IF v.b THEN "True" ELSE "False")) ELSE Fail
      [] OTHER -> Fail

BoolValidator(v) ==
    CASE v.k = "bool" -> Ok(v)
      [] v.k = "num" -> IF v.n \in {0, 100} THEN Ok(Bool(v.n = 100)) ELSE Fail
      [] v.k = "str" -> IF v.s \in TrueStrings THEN Ok(Bool(TRUE))
                        ELSE IF v.s \in FalseStrings THEN Ok(Bool(FALSE))
                        ELSE Fail
      [] OTHER -> Fail

Coerce(type, v, ver) ==
    CASE type = "float" -> FloatValidator(v)
      [] type = "str" -> StrValidator(v, ver)
      [] OTHER -> BoolValidator(v)

(***************************************************************************)
(* A variant in which the last field has a default.                        *)
(***************************************************************************)
RequiredButLast(f) == f # CarFeatures[Len(CarFeatures)].name

(***************************************************************************)
(* A field without a default is required.                                  *)
(***************************************************************************)
Required(f) == TRUE

Err(i, f, kind) == [rec |-> i, field |-> f, kind |-> kind, expected |-> FieldType(f)]

(***************************************************************************)
(* Errors of record i of the batch: every missing required field and       *)
(* every value its validator refuses.                                      *)
(***************************************************************************)
ItemErrors(obj, i, ver) ==
    {Err(i, f, "missing") : f \in {g \in FieldNames : Required(g) /\ g \notin Keys(obj)}}
    \cup
    {Err(i, f, "type") :
        f \in {g \in FieldNames \cap Keys(obj) : ~Coerce(FieldType(g), Get(obj, g), ver).ok}}

(***************************************************************************)
(* The validated CarFeatures object: declared fields only, each holding    *)
(* the validator's output; keys the class does not declare are dropped.    *)
(***************************************************************************)
ParseItem(obj, ver) ==
    [f \in FieldNames |->
        IF f \in Keys(obj) THEN Coerce(FieldType(f), Get(obj, f), ver).val ELSE Null]

(***************************************************************************)
(* class InputData: input: List[CarFeatures].                              *)
(***************************************************************************)
BodyErrors(body, ver) ==
    IF ~body.hasInput
    THEN {[rec |-> 0, field |-> "input", kind |-> "missing", expected |-> "list"]}
    ELSE UNION {ItemErrors(body.input[i], i, ver) : i \in DOMAIN body.input}

ParseBody(body, ver) == [i \in DOMAIN body.input |-> ParseItem(body.input[i], ver)]


(***************************************************************************)
(* predict, lines 150-151: item.dict() lists the declared fields in        *)
(* declaration order; pd.DataFrame(list of dicts) takes its columns from   *)
(* the keys in order of first appearance and one row per dict.             *)
(***************************************************************************)
TrainingOrder ==
    <<"model_key", "mileage", "engine_power", "fuel", "paint_color", "car_type">>
    \o [i \in 1..7 |-> CarFeatures[i + 6].name]

ItemDictTrainingOrder(item) ==
    [i \in DOMAIN TrainingOrder |-> [key |-> TrainingOrder[i], val |-> item[TrainingOrder[i]]]]

ItemDict(item) == [i \in DOMAIN CarFeatures |->
                      [key |-> CarFeatures[i].name, val |-> item[CarFeatures[i].name]]]

RECURSIVE AppendNew(_, _)
AppendNew(cols, ks) ==
    IF ks = <<>> THEN cols
    ELSE AppendNew(IF Head(ks) \in Range(cols) THEN cols ELSE Append(cols, Head(ks)),
                   Tail(ks))

RECURSIVE ColumnsOf(_, _)
ColumnsOf(cols, dicts) ==
    IF dicts = <<>> THEN cols
    ELSE ColumnsOf(AppendNew(cols, [i \in DOMAIN Head(dicts) |-> Head(dicts)[i].key]),
                   Tail(dicts))

DataFrameReversed(dicts) ==
    LET cols == ColumnsOf(<<>>, dicts)
    IN  [columns |-> cols,
         rows |-> [i \in DOMAIN dicts |->
                      [c \in Range(cols) |-> Get(dicts[Len(dicts) + 1 - i], c)]]]

DataFrame(dicts) ==
    LET cols == ColumnsOf(<<>>, dicts)
    IN  [columns |-> cols,
         rows |-> [i \in DOMAIN dicts |->
                      [c \in Range(cols) |->
                          IF c \in Keys(dicts[i]) THEN Get(dicts[i], c) ELSE Null]]]

EmptyFrame == [columns |-> <<>>, rows |-> <<>>]

(***************************************************************************)
(* The pipeline of model_training.py: ColumnTransformer(StandardScaler on  *)
(* the numeric features, OneHotEncoder(handle_unknown="ignore") on the     *)
(* categorical ones, remainder passed through) followed by the forest.     *)
(***************************************************************************)
numeric_features == <<"mileage", "engine_power">>
categorical_features == <<"model_key", "fuel", "paint_color", "car_type">>
boolean_features == <<"private_parking_available", "has_gps", "has_air_conditioning",
                      "automatic_car", "has_getaround_connect", "has_speed_regulator",
                      "winter_tires">>
handle_unknown_error == "error"
handle_unknown == "ignore"

(***************************************************************************)
(* Fitted artifacts joblib.dump may have written: scaler statistics, the   *)
(* categories seen in training, and the fitted trees (threshold tests on   *)
(* one encoded column; the forest predicts the mean of its trees).         *)
(***************************************************************************)
Vocabulary ==
    [f \in Range(categorical_features) |->
        CASE f = "model_key" -> <<"Citroen", "Peugeot">>
          [] f = "fuel" -> <<"diesel", "petrol">>
          [] f = "paint_color" -> <<"black", "white">>
          [] OTHER -> <<"sedan", "suv">>]

Tree(c, t, l, r) == [col |-> c, thr |-> t, le |-> l, gt |-> r]

ArtifactA ==
    [id |-> "A",
     mean |-> [f \in Range(numeric_features) |-> IF f = "mileage" THEN 14000 ELSE 120],
     scale |-> [f \in Range(numeric_features) |-> IF f = "mileage" THEN 6000 ELSE 40],
     categories |-> Vocabulary,
     trees |-> << Tree(1, 0, 13000, 9000), Tree(3, 50, 10000, 12500),
                  Tree(12, 50, 9500, 11500) >>]

ArtifactB ==
    [id |-> "B",
     mean |-> [f \in Range(numeric_features) |-> IF f = "mileage" THEN 10000 ELSE 100],
     scale |-> [f \in Range(numeric_features) |-> IF f = "mileage" THEN 5000 ELSE 50],
     categories |-> Vocabulary,
     trees |-> << Tree(2, 0, 8200, 14000), Tree(5, 50, 10000, 11000) >>]

Artifacts == {ArtifactA, ArtifactB}
NoModel == [id |-> "none"]

RECURSIVE Flatten(_)
Flatten(ss) == IF ss = <<>> THEN <<>> ELSE Head(ss) \o Flatten(Tail(ss))

RECURSIVE SumSeq(_)
SumSeq(s) == IF s = <<>> THEN 0 ELSE Head(s) + SumSeq(Tail(s))

StandardScaler(m, f, v) == ((v.n - m.mean[f]) * 100) \div m.scale[f]

Known(m, f, v) == v.s \in Range(m.categories[f])

OneHotEncoder(m, f, v) ==
    [j \in DOMAIN m.categories[f] |-> IF m.categories[f][j] = v.s THEN 100 ELSE 0]

Passthrough(v) == IF v.b THEN 100 ELSE 0

EncodeRow(m, row) ==
    [j \in DOMAIN numeric_features |->
        StandardScaler(m, numeric_features[j], row[numeric_features[j]])]
    \o Flatten([j \in DOMAIN categorical_features |->
                   OneHotEncoder(m, categorical_features[j], row[categorical_features[j]])])
    \o [j \in DOMAIN boolean_features |-> Passthrough(row[boolean_features[j]])]

FittedColumns == Range(numeric_features) \cup Range(categorical_features)
                    \cup Range(boolean_features)

(***************************************************************************)
(* preprocessor.transform raises when a fitted column is missing from the  *)
(* frame, or, were handle_unknown "error", on an unseen category.          *)
(***************************************************************************)
TransformRaises(m, df) ==
    \/ ~(FittedColumns \subseteq Range(df.columns))
    \/ /\ handle_unknown = "error"
       /\ \E i \in DOMAIN df.rows : \E f \in Range(categorical_features) :
             ~Known(m, f, df.rows[i][f])

Transform(m, df) == [i \in DOMAIN df.rows |-> EncodeRow(m, df.rows[i])]

TreePredict(t, x) == IF x[t.col] <= t.thr THEN t.le ELSE t.gt

ForestPredictRow(m, x) ==
    SumSeq([j \in DOMAIN m.trees |-> TreePredict(m.trees[j], x)]) \div Len(m.trees)

ForestPredict(m, X) == [i \in DOMAIN X |-> ForestPredictRow(m, X[i])]


(***************************************************************************)
(* Requests the clients send.  ExampleRecord is the documented example     *)
(* record; the other records vary it: another car, one field omitted, a    *)
(* category unseen in training, a value of another JSON type, an extra     *)
(* key, the keys in another order.                                         *)
(***************************************************************************)
Pair(key, v) == [key |-> key, val |-> v]

ExampleRecord ==
    << Pair("mileage", Num(700)), Pair("engine_power", Num(27)),
       Pair("model_key", Str("Citroen")), Pair("fuel", Str("diesel")),
       Pair("paint_color", Str("black")), Pair("car_type", Str("sedan")),
       Pair("private_parking_available", Bool(TRUE)), Pair("has_gps", Bool(TRUE)),
       Pair("has_air_conditioning", Bool(FALSE)), Pair("automatic_car", Bool(FALSE)),
       Pair("has_getaround_connect", Bool(TRUE)), Pair("has_speed_regulator", Bool(FALSE)),
       Pair("winter_tires", Bool(TRUE)) >>

OtherRecord ==
    << Pair("mileage", Num(2000000)), Pair("engine_power", Num(13500)),
       Pair("model_key", Str("Peugeot")), Pair("fuel", Str("petrol")),
       Pair("paint_color", Str("white")), Pair("car_type", Str("suv")),
       Pair("private_parking_available", Bool(FALSE)), Pair("has_gps", Bool(FALSE)),
       Pair("has_air_conditioning", Bool(TRUE)), Pair("automatic_car", Bool(TRUE)),
       Pair("has_getaround_connect", Bool(FALSE)), Pair("has_speed_regulator", Bool(TRUE)),
       Pair("winter_tires", Bool(FALSE)) >>

Without(obj, key) == SelectSeq(obj, LAMBDA p : p.key # key)
With(obj, key, v) == [i \in DOMAIN obj |-> IF obj[i].key = key THEN Pair(key, v) ELSE obj[i]]
Reversed(obj) == [i \in DOMAIN obj |-> obj[Len(obj) + 1 - i]]

OmittingRecords == {Without(ExampleRecord, f) : f \in FieldNames}
UnseenRecords ==
    {With(ExampleRecord, f, Str("UnknownBrandXYZ")) : f \in Range(categorical_features)}
MistypedRecords ==
    { With(ExampleRecord, "mileage", Str("7")),
      With(ExampleRecord, "mileage", Str("abc")),
      With(ExampleRecord, "engine_power", Null),
      With(ExampleRecord, "model_key", Num(500)),
      With(ExampleRecord, "has_gps", Str("yes")),
      With(ExampleRecord, "has_gps", Str("abc")),
      With(ExampleRecord, "winter_tires", Num(700)) }
ExtraKeyRecords ==
    { Append(ExampleRecord, Pair("owner_id", Str("u42"))),
      <<Pair("owner_id", Num(100))>> \o OtherRecord,
      Reversed(OtherRecord) }

Records == {ExampleRecord, OtherRecord} \cup OmittingRecords \cup UnseenRecords
              \cup MistypedRecords \cup ExtraKeyRecords

(***************************************************************************)
(* Batches: every record alone, and every sequence of up to MaxBatch of    *)
(* the records of BatchRecords.                                            *)
(***************************************************************************)
BatchRecords ==
    { ExampleRecord, OtherRecord,
      Without(ExampleRecord, "fuel"),
      With(ExampleRecord, "model_key", Str("UnknownBrandXYZ")),
      With(ExampleRecord, "mileage", Str("7")),
      With(ExampleRecord, "mileage", Str("abc")),
      Append(ExampleRecord, Pair("owner_id", Str("u42"))),
      Reversed(OtherRecord) }

Batches == {<<r>> : r \in Records} \cup UNION {[1..n -> BatchRecords] : n \in 0..MaxBatch}

NoBody == [hasInput |-> FALSE, input |-> <<>>]
Post(body) == [method |-> "POST", path |-> "/predict", body |-> body]
GetOf(path) == [method |-> "GET", path |-> path, body |-> NoBody]

Requests ==
    {Post([hasInput |-> TRUE, input |-> b]) : b \in Batches}
    \cup {Post(NoBody), GetOf("/"), GetOf("/docs")}

ConcRequests ==
    { Post([hasInput |-> TRUE, input |-> <<ExampleRecord>>]),
      Post([hasInput |-> TRUE, input |-> <<OtherRecord, ExampleRecord>>]),
      Post([hasInput |-> TRUE, input |-> <<ExampleRecord, Without(OtherRecord, "fuel")>>]),
      Post([hasInput |-> TRUE, input |-> <<>>]),
      GetOf("/docs") }


(***************************************************************************)
(* The application's routes in registration order: FastAPI(...) registers  *)
(* its own documentation routes when it is constructed, then the three     *)
(* decorators add theirs.  A request is answered by the first match.       *)
(***************************************************************************)
Route(method, path, endpoint) == [method |-> method, path |-> path, endpoint |-> endpoint]

routes ==
    << Route("GET", "/openapi.json", "openapi"),
       Route("GET", "/docs", "swagger_ui_html"),
       Route("GET", "/docs/oauth2-redirect", "swagger_ui_redirect"),
       Route("GET", "/redoc", "redoc_html"),
       Route("GET", "/", "root"),
       Route("POST", "/predict", "predict"),
       Route("GET", "/docs", "custom_docs") >>

Matches(req) == {i \in DOMAIN routes :
                    routes[i].method = req.method /\ routes[i].path = req.path}

Endpoint(req) ==
    IF Matches(req) = {} THEN "not_found"
    ELSE routes[CHOOSE i \in Matches(req) : \A j \in Matches(req) : i <= j].endpoint

Response(status, kind, prediction, detail) ==
    [status |-> status, kind |-> kind, prediction |-> prediction, detail |-> detail]

NoResponse == Response(0, "none", <<>>, {})
NoRequest == [method |-> "", path |-> "", body |-> NoBody]

VARIABLES
    model,        \* the module-level model of main.py
    started,      \* the module has been imported: the application serves
    loads,        \* number of joblib.load calls so far
    pydantic,     \* major version of the installed pydantic
    pool,         \* the worker threads handling requests
    pc,           \* each worker's position in handling its request
    request,      \* the request a worker handles
    data,         \* predict's parameter data.input, once validated
    df,           \* predict's local df
    Xt,           \* the preprocessor's output inside model.predict
    predictions,  \* predict's local predictions
    response,     \* the response sent for the request
    calls,        \* number of model.predict calls made for the request
    history,      \* what a client that repeats a request remembers of its first answer
    dashboard     \* the dashboard's prediction tab: form, request sent, reply, display

vars == <<model, started, loads, pydantic, pool, pc, request, data, df, Xt,
          predictions, response, calls, history, dashboard>>

Workers == 1..NumWorkers

shared == <<model, started, loads, pydantic, pool, history, dashboard>>

(***************************************************************************)
(* A client that submits one of the requests of Repeated keeps the first   *)
(* answer it got, and notes whether other requests were answered since.    *)
(***************************************************************************)
Repeated ==
    { Post([hasInput |-> TRUE, input |-> <<ExampleRecord>>]),
      Post([hasInput |-> TRUE, input |-> <<OtherRecord, ExampleRecord>>]),
      Post([hasInput |-> TRUE,
            input |-> <<With(ExampleRecord, "model_key", Str("UnknownBrandXYZ"))>>]) }

NoHistory == [request |-> NoRequest, response |-> NoResponse, others |-> FALSE]

Remember(h, req, resp) ==
    IF h = NoHistory
    THEN IF req \in Repeated THEN [request |-> req, response |-> resp, others |-> FALSE]
         ELSE h
    ELSE IF req # h.request THEN [h EXCEPT !.others = TRUE] ELSE h

(***************************************************************************)
(* The dashboard's prediction tab before the form is submitted.            *)
(***************************************************************************)
FormShown ==
    [pc |-> "form", input_data |-> <<>>, posts |-> <<>>, raised |-> FALSE,
     reply |-> NoResponse, reads |-> 0, shown |-> <<>>]

Idle ==
    /\ history = NoHistory
    /\ dashboard = FormShown
    /\ pc = [w \in Workers |-> "idle"]
    /\ request = [w \in Workers |-> NoRequest]
    /\ data = [w \in Workers |-> <<>>]
    /\ df = [w \in Workers |-> EmptyFrame]
    /\ Xt = [w \in Workers |-> <<>>]
    /\ predictions = [w \in Workers |-> <<>>]
    /\ response = [w \in Workers |-> NoResponse]
    /\ calls = [w \in Workers |-> 0]

Init ==
    /\ model = NoModel
    /\ started = FALSE
    /\ loads = 0
    /\ pydantic \in {1, 2}
    /\ pool = {1}
    /\ Idle

InitConc ==
    /\ model = NoModel
    /\ started = FALSE
    /\ loads = 0
    /\ pydantic \in {1, 2}
    /\ pool = Workers
    /\ Idle

(***************************************************************************)
(* Line 45, executed once when the module is imported, before the server   *)
(* accepts a request.                                                      *)
(***************************************************************************)
Load ==
    /\ ~started
    /\ \E a \in Artifacts : model' = a
    /\ loads' = loads + 1
    /\ started' = TRUE
    /\ UNCHANGED <<pydantic, pool, pc, request, data, df, Xt, predictions,
                   response, calls, history, dashboard>>

(***************************************************************************)
(* The requests clients send: any of Requests while one worker serves,     *)
(* the selection ConcRequests while several serve concurrently.            *)
(***************************************************************************)
Inbox == IF Cardinality(pool) = 1 THEN Requests ELSE ConcRequests

Receive(w) ==
    /\ started
    /\ w \in pool
    /\ pc[w] = "idle"
    /\ \E r \in Inbox : request' = [request EXCEPT ![w] = r]
    /\ pc' = [pc EXCEPT ![w] = "received"]
    /\ UNCHANGED <<shared, data, df, Xt, predictions, response, calls>>

(***************************************************************************)
(* GET routes: the endpoint returns a static page or document.             *)
(***************************************************************************)
StaticResponse(endpoint) ==
    CASE endpoint = "root" -> Response(200, "html", <<>>, {})
      [] endpoint = "custom_docs" -> Response(200, "docs_json", <<12345>>, {})
      [] endpoint = "swagger_ui_html" -> Response(200, "swagger_ui", <<>>, {})
      [] OTHER -> Response(404, "not_found", <<>>, {})

HandleGet(w) ==
    /\ pc[w] = "received"
    /\ Endpoint(request[w]) # "predict"
    /\ response' = [response EXCEPT ![w] = StaticResponse(Endpoint(request[w]))]
    /\ pc' = [pc EXCEPT ![w] = "done"]
    /\ UNCHANGED <<shared, request, data, df, Xt, predictions, calls>>

(***************************************************************************)
(* Variants of the handler's steps, used to test what the properties       *)
(* detect: a validation that drops the bad records and goes on, a frame    *)
(* kept in one place for all workers, a step that loads the model again,   *)
(* an exception answered as a client error.                                *)
(***************************************************************************)
ValidateLenient(w) ==
    /\ pc[w] = "received"
    /\ Endpoint(request[w]) = "predict"
    /\ request[w].body.hasInput
    /\ LET good == SelectSeq(request[w].body.input,
                             LAMBDA obj : ItemErrors(obj, 1, pydantic) = {})
       IN  data' = [data EXCEPT ![w] = [i \in DOMAIN good |-> ParseItem(good[i], pydantic)]]
    /\ pc' = [pc EXCEPT ![w] = "validated"]
    /\ UNCHANGED <<shared, request, df, Xt, predictions, calls, response>>

AssembleShared(w) ==
    /\ pc[w] = "validated"
    /\ df' = [v \in Workers |-> DataFrame([i \in DOMAIN data[w] |-> ItemDict(data[w][i])])]
    /\ pc' = [pc EXCEPT ![w] = "assembled"]
    /\ UNCHANGED <<shared, request, data, Xt, predictions, response, calls>>

ScoreReloading(w) ==
    /\ pc[w] = "transformed"
    /\ \E a \in Artifacts : model' = a
    /\ loads' = loads + 1
    /\ predictions' = [predictions EXCEPT ![w] = ForestPredict(model, Xt[w])]
    /\ pc' = [pc EXCEPT ![w] = "scored"]
    /\ UNCHANGED <<started, pydantic, pool, request, data, df, Xt, response, calls,
                   history, dashboard>>

PreprocessBadRequest(w) ==
    /\ pc[w] = "assembled"
    /\ calls' = [calls EXCEPT ![w] = @ + 1]
    /\ IF TransformRaises(model, df[w])
       THEN /\ response' = [response EXCEPT
                               ![w] = Response(400, "bad_request", <<>>, {})]
            /\ pc' = [pc EXCEPT ![w] = "done"]
            /\ Xt' = Xt
       ELSE /\ Xt' = [Xt EXCEPT ![w] = Transform(model, df[w])]
            /\ pc' = [pc EXCEPT ![w] = "transformed"]
            /\ response' = response
    /\ UNCHANGED <<shared, request, data, df, predictions>>

(***************************************************************************)
(* Further variants: a preprocessing step that refits the scaler on the    *)
(* frame it is given, and one that calls the model a second time when the  *)
(* first call raises.                                                      *)
(***************************************************************************)
PreprocessRefit(w) ==
    /\ pc[w] = "assembled"
    /\ calls' = [calls EXCEPT ![w] = @ + 1]
    /\ IF TransformRaises(model, df[w])
       THEN /\ response' = [response EXCEPT
                               ![w] = Response(500, "server_error", <<>>, {})]
            /\ pc' = [pc EXCEPT ![w] = "done"]
            /\ Xt' = Xt
            /\ model' = model
       ELSE /\ Xt' = [Xt EXCEPT ![w] = Transform(model, df[w])]
            /\ pc' = [pc EXCEPT ![w] = "transformed"]
            /\ response' = response
            /\ model' = [model EXCEPT
                            !.mean = [f \in DOMAIN model.mean |-> df[w].rows[1][f].n - 100]]
    /\ UNCHANGED <<started, loads, pydantic, pool, history, dashboard, request, data, df,
                   predictions>>

PreprocessRetry(w) ==
    /\ pc[w] = "assembled"
    /\ calls' = [calls EXCEPT ![w] = @ + 1]
    /\ IF TransformRaises(model, df[w])
       THEN IF calls[w] = 0
            THEN UNCHANGED <<response, pc, Xt>>
            ELSE /\ response' = [response EXCEPT
                                    ![w] = Response(500, "server_error", <<>>, {})]
                 /\ pc' = [pc EXCEPT ![w] = "done"]
                 /\ Xt' = Xt
       ELSE /\ Xt' = [Xt EXCEPT ![w] = Transform(model, df[w])]
            /\ pc' = [pc EXCEPT ![w] = "transformed"]
            /\ response' = response
    /\ UNCHANGED <<shared, request, data, df, predictions>>

(***************************************************************************)
(* POST /predict, line 147: the body is validated against InputData        *)
(* before predict runs; any error answers 422 with the list of errors.     *)
(***************************************************************************)
Validate(w) ==
    /\ pc[w] = "received"
    /\ Endpoint(request[w]) = "predict"
    /\ LET errs == BodyErrors(request[w].body, pydantic)
       IN  IF errs # {}
           THEN /\ response' = [response EXCEPT
                                   ![w] = Response(422, "validation_error", <<>>, errs)]
                /\ pc' = [pc EXCEPT ![w] = "done"]
                /\ data' = data
           ELSE /\ data' = [data EXCEPT ![w] = ParseBody(request[w].body, pydantic)]
                /\ pc' = [pc EXCEPT ![w] = "validated"]
                /\ response' = response
    /\ UNCHANGED <<shared, request, df, Xt, predictions, calls>>

(***************************************************************************)
(* predict, lines 150-151.                                                 *)
(***************************************************************************)
Assemble(w) ==
    /\ pc[w] = "validated"
    /\ df' = [df EXCEPT ![w] = DataFrame([i \in DOMAIN data[w] |-> ItemDict(data[w][i])])]
    /\ pc' = [pc EXCEPT ![w] = "assembled"]
    /\ UNCHANGED <<shared, request, data, Xt, predictions, response, calls>>

(***************************************************************************)
(* predict, line 153, model.predict(df): the pipeline first transforms     *)
(* the frame, then the forest scores the encoded rows.  An exception       *)
(* leaves predict unhandled and the server answers 500.                    *)
(***************************************************************************)
Preprocess(w) ==
    /\ pc[w] = "assembled"
    /\ calls' = [calls EXCEPT ![w] = @ + 1]
    /\ IF TransformRaises(model, df[w])
       THEN /\ response' = [response EXCEPT
                               ![w] = Response(500, "server_error", <<>>, {})]
            /\ pc' = [pc EXCEPT ![w] = "done"]
            /\ Xt' = Xt
       ELSE /\ Xt' = [Xt EXCEPT ![w] = Transform(model, df[w])]
            /\ pc' = [pc EXCEPT ![w] = "transformed"]
            /\ response' = response
    /\ UNCHANGED <<shared, request, data, df, predictions>>

Score(w) ==
    /\ pc[w] = "transformed"
    /\ predictions' = [predictions EXCEPT ![w] = ForestPredict(model, Xt[w])]
    /\ pc' = [pc EXCEPT ![w] = "scored"]
    /\ UNCHANGED <<shared, request, data, df, Xt, response, calls>>

(***************************************************************************)
(* predict, line 155.                                                      *)
(***************************************************************************)
Respond(w) ==
    /\ pc[w] = "scored"
    /\ response' = [response EXCEPT
                       ![w] = Response(200, "prediction", predictions[w], {})]
    /\ pc' = [pc EXCEPT ![w] = "done"]
    /\ UNCHANGED <<shared, request, data, df, Xt, predictions, calls>>

(***************************************************************************)
(* The response is sent; the request and the handler's locals are gone.    *)
(***************************************************************************)
Close(w) ==
    /\ pc[w] = "done"
    /\ pc' = [pc EXCEPT ![w] = "idle"]
    /\ request' = [request EXCEPT ![w] = NoRequest]
    /\ data' = [data EXCEPT ![w] = <<>>]
    /\ df' = [df EXCEPT ![w] = EmptyFrame]
    /\ Xt' = [Xt EXCEPT ![w] = <<>>]
    /\ predictions' = [predictions EXCEPT ![w] = <<>>]
    /\ response' = [response EXCEPT ![w] = NoResponse]
    /\ calls' = [calls EXCEPT ![w] = 0]
    /\ history' = Remember(history, request[w], response[w])
    /\ UNCHANGED <<model, started, loads, pydantic, pool, dashboard>>

Next ==
    \/ Load
    \/ \E w \in Workers : Receive(w)
    \/ \E w \in Workers : HandleGet(w)
    \/ \E w \in Workers : Validate(w)
    \/ \E w \in Workers : Assemble(w)
    \/ \E w \in Workers : Preprocess(w)
    \/ \E w \in Workers : Score(w)
    \/ \E w \in Workers : Respond(w)
    \/ \E w \in Workers : Close(w)

Spec == Init /\ [][Next]_vars

SpecConc == InitConc /\ [][Next]_vars


(***************************************************************************)
(*                              PROPERTIES                                 *)
(***************************************************************************)
Predicting(w) == Endpoint(request[w]) = "predict"
Body(w) == request[w].body
Input(w) == request[w].body.input
Finished(w) == pc[w] = "done" /\ Predicting(w)
ValidRequest(w) == Predicting(w) /\ BodyErrors(Body(w), pydantic) = {}
Batched(w) == pc[w] \in {"assembled", "transformed", "scored", "done"}
ClientError == 400..499
ServerError == 500..599

(***************************************************************************)
(* C1. A valid request with N >= 1 records is answered 200 with exactly N  *)
(* predictions, prediction[i] being the score of input[i] alone; the rows  *)
(* of the assembled batch are the validated records in request order.      *)
(***************************************************************************)
ScoreOf(obj) == ForestPredictRow(model, EncodeRow(model, ParseItem(obj, pydantic)))

C1_OrderPreserved ==
    \A w \in Workers :
        ValidRequest(w) /\ Len(Input(w)) >= 1 =>
            /\ Batched(w) =>
                  /\ Len(df[w].rows) = Len(Input(w))
                  /\ \A i \in DOMAIN Input(w) : \A f \in FieldNames :
                        df[w].rows[i][f] = ParseItem(Input(w)[i], pydantic)[f]
            /\ pc[w] = "done" =>
                  /\ response[w].status = 200
                  /\ Len(response[w].prediction) = Len(Input(w))
                  /\ \A i \in DOMAIN Input(w) :
                        response[w].prediction[i] = ScoreOf(Input(w)[i])

C1_Witness ==
    \E w \in Workers :
        /\ Finished(w)
        /\ Input(w) = <<OtherRecord, ExampleRecord>>
        /\ response[w].status = 200
        /\ Len(response[w].prediction) = 2
        /\ response[w].prediction[1] # response[w].prediction[2]

(***************************************************************************)
(* C2. A request in which a record omits one of the 13 declared fields is  *)
(* answered with a validation error that names the record and the field.   *)
(***************************************************************************)
C2_MissingFieldNamed ==
    \A w \in Workers :
        Finished(w) /\ Body(w).hasInput =>
            \A i \in DOMAIN Input(w) : \A f \in FieldNames :
                f \notin Keys(Input(w)[i]) =>
                    /\ response[w].status = 422
                    /\ \E e \in response[w].detail :
                          e.rec = i /\ e.field = f /\ e.kind = "missing"

C2_Witness ==
    \E w \in Workers :
        /\ Finished(w)
        /\ Input(w) = <<Without(ExampleRecord, "winter_tires")>>
        /\ response[w].status = 422
        /\ response[w].detail =
              {[rec |-> 1, field |-> "winter_tires", kind |-> "missing", expected |-> "bool"]}

(***************************************************************************)
(* C3. When any record of a request fails validation the whole request is  *)
(* rejected: model.predict is never called for it and nothing is           *)
(* predicted, not even for the valid records of the batch.                 *)
(***************************************************************************)
C3_RejectedWholesale ==
    \A w \in Workers :
        Predicting(w) /\ BodyErrors(Body(w), pydantic) # {} =>
            /\ pc[w] \in {"received", "done"}
            /\ calls[w] = 0
            /\ data[w] = <<>>
            /\ predictions[w] = <<>>
            /\ response[w].prediction = <<>>
            /\ pc[w] = "done" => response[w].status = 422

C3_Witness ==
    \E w \in Workers :
        /\ Finished(w)
        /\ Input(w) = <<ExampleRecord, Without(ExampleRecord, "fuel")>>
        /\ response[w].status = 422
        /\ calls[w] = 0

(***************************************************************************)
(* C4. A request that fails validation is answered 4xx, never 5xx; a       *)
(* request that passes validation and whose model.predict raises is        *)
(* answered 5xx, never 4xx or 200.                                         *)
(***************************************************************************)
C4_FailureKindsDistinct ==
    \A w \in Workers :
        Finished(w) =>
            /\ BodyErrors(Body(w), pydantic) # {} => response[w].status \in ClientError
            /\ ValidRequest(w) /\ calls[w] = 1 /\ TransformRaises(model, df[w]) =>
                  response[w].status \in ServerError

C4_Witness ==
    \E w \in Workers :
        /\ Finished(w)
        /\ ValidRequest(w)
        /\ calls[w] = 1
        /\ TransformRaises(model, df[w])
        /\ response[w].status = 500

(***************************************************************************)
(* C5. A request with an empty batch has a defined outcome: 200 with an    *)
(* empty prediction list or a 4xx, never a 5xx.                            *)
(***************************************************************************)
C5_EmptyBatchDefined ==
    \A w \in Workers :
        Finished(w) /\ Body(w).hasInput /\ Input(w) = <<>> =>
            \/ response[w].status = 200 /\ response[w].prediction = <<>>
            \/ response[w].status \in ClientError


(***************************************************************************)
(* C6. A valid request holding a category never seen in training is not    *)
(* an error: the encoder's indicators for that field are all zero, the     *)
(* forest scores the row, and the answer is 200 with one prediction per    *)
(* record.                                                                 *)
(***************************************************************************)
CategoryOffset(m, j) ==
    Len(numeric_features)
    + SumSeq([k \in 1..(j - 1) |-> Len(m.categories[categorical_features[k]])])

Indicators(m, x, j) ==
    SubSeq(x, CategoryOffset(m, j) + 1,
           CategoryOffset(m, j) + Len(m.categories[categorical_features[j]]))

Unseen(w, i, j) ==
    ParseItem(Input(w)[i], pydantic)[categorical_features[j]].s
        \notin Range(model.categories[categorical_features[j]])

HasUnseen(w) ==
    \E i \in DOMAIN Input(w) : \E j \in DOMAIN categorical_features : Unseen(w, i, j)

C6_UnseenCategoryScored ==
    \A w \in Workers :
        ValidRequest(w) /\ HasUnseen(w) =>
            /\ pc[w] = "done" =>
                  /\ response[w].status = 200
                  /\ Len(response[w].prediction) = Len(Input(w))
            /\ pc[w] \in {"transformed", "scored"} \/ (pc[w] = "done" /\ Xt[w] # <<>>) =>
                  \A i \in DOMAIN Input(w) : \A j \in DOMAIN categorical_features :
                      Unseen(w, i, j) =>
                          \A k \in DOMAIN Indicators(model, Xt[w][i], j) :
                              Indicators(model, Xt[w][i], j)[k] = 0

C6_Witness ==
    \E w \in Workers :
        /\ Finished(w)
        /\ Input(w) = <<With(ExampleRecord, "model_key", Str("UnknownBrandXYZ"))>>
        /\ response[w].status = 200
        /\ Len(response[w].prediction) = 1
        /\ Indicators(model, Xt[w][1], 1) = <<0, 0>>
        /\ Indicators(model, Xt[w][1], 2) # <<0, 0>>

(***************************************************************************)
(* C7.  As claimed: a value whose JSON type is not the declared type of    *)
(* its field is rejected with an error naming the field and the expected   *)
(* type, and nothing is coerced.                                           *)
(***************************************************************************)
JsonKind(type) == IF type = "float" THEN "num" ELSE type

Unconvertible(type, v) ==
    \/ v.k = "null"
    \/ type = "float" /\ v.k = "str" /\ v.s \notin {"7", "0.27"}
    \/ type = "bool" /\ v.k = "str"
          /\ v.s \notin {"1", "on", "t", "true", "y", "yes", "0", "off", "f", "false", "n", "no"}
    \/ type = "bool" /\ v.k = "num" /\ v.n \notin {0, 100}

ColumnOrder == [i \in DOMAIN CarFeatures |-> CarFeatures[i].name]

Declared(obj) == SelectSeq(obj, LAMBDA p : p.key \in FieldNames)

AcceptableWithoutExtras(w) ==
    /\ Predicting(w)
    /\ Body(w).hasInput
    /\ Len(Input(w)) >= 1
    /\ \A i \in DOMAIN Input(w) : \A f \in FieldNames :
          /\ f \in Keys(Input(w)[i])
          /\ Coerce(FieldType(f), Get(Declared(Input(w)[i]), f), pydantic).ok

C8_ExtraFieldsIgnored ==
    \A w \in Workers :
        AcceptableWithoutExtras(w) =>
            /\ pc[w] = "done" => response[w].status = 200
            /\ Batched(w) =>
                  /\ df[w].columns = ColumnOrder
                  /\ Len(df[w].rows) = Len(Input(w))
                  /\ \A i \in DOMAIN df[w].rows : DOMAIN df[w].rows[i] = FieldNames

C8_Witness ==
    \E w \in Workers :
        /\ Finished(w)
        /\ Input(w) = <<Append(ExampleRecord, Pair("owner_id", Str("u42"))),
                        Reversed(OtherRecord)>>
        /\ response[w].status = 200
        /\ df[w].columns = ColumnOrder
        /\ Len(df[w].rows) = 2

(***************************************************************************)
(* C9. The model is loaded exactly once, before any request is served,     *)
(* and no step of any request handler loads it again or changes it.        *)
(***************************************************************************)
C9_LoadedOnceImmutable ==
    /\ loads = 0 /\ ~started
    /\ [][ /\ loads' <= 1
           /\ started' <=> loads' = 1
           /\ started' => model' \in Artifacts
           /\ started => model' = model /\ loads' = loads
           /\ \A w \in Workers : pc'[w] # "idle" => started' ]_vars

C9_Witness ==
    /\ started
    /\ loads = 1
    /\ model \in Artifacts
    /\ \E w \in Workers : Finished(w) /\ response[w].status = 200

(***************************************************************************)
(* C10. Under any interleaving of concurrently handled requests, each      *)
(* request's response is the one the same request gets when handled alone. *)
(***************************************************************************)
Alone(req, m, ver) ==
    IF Endpoint(req) # "predict" THEN StaticResponse(Endpoint(req))
    ELSE IF BodyErrors(req.body, ver) # {}
         THEN Response(422, "validation_error", <<>>, BodyErrors(req.body, ver))
         ELSE LET items == ParseBody(req.body, ver)
                  frame == DataFrame([i \in DOMAIN items |-> ItemDict(items[i])])
              IN  IF TransformRaises(m, frame)
                  THEN Response(500, "server_error", <<>>, {})
                  ELSE Response(200, "prediction", ForestPredict(m, Transform(m, frame)), {})

C10_Isolation ==
    \A w \in Workers : pc[w] = "done" => response[w] = Alone(request[w], model, pydantic)

C10_Witness ==
    \E v, w \in Workers :
        /\ v # w
        /\ Finished(v) /\ response[v].status = 200
        /\ Input(v) = <<OtherRecord, ExampleRecord>>
        /\ Predicting(w) /\ pc[w] \in {"assembled", "transformed", "scored"}
        /\ Input(w) = <<ExampleRecord>>


(***************************************************************************)
(* C11. Submitting the identical valid request again, whatever requests    *)
(* were answered in between, yields the identical predictions: the answer  *)
(* is the one the client remembers from its first submission.              *)
(***************************************************************************)
C11_Idempotent ==
    \A w \in Workers :
        pc[w] = "done" /\ history # NoHistory /\ request[w] = history.request =>
            /\ response[w].status = history.response.status
            /\ response[w].prediction = history.response.prediction

C11_Witness ==
    \E w \in Workers :
        /\ Finished(w)
        /\ history.others
        /\ history.request = Post([hasInput |-> TRUE, input |-> <<OtherRecord, ExampleRecord>>])
        /\ request[w] = history.request
        /\ response[w].status = 200
        /\ Len(response[w].prediction) = 2

(***************************************************************************)
(* C12. GET /docs is answered by custom_docs with the static JSON          *)
(* description of the /predict contract, whose example response is         *)
(* {"prediction": [123.45]}.                                               *)
(***************************************************************************)
C12_CustomDocsServed ==
    \A w \in Workers :
        pc[w] = "done" /\ request[w] = GetOf("/docs") =>
            /\ Endpoint(request[w]) = "custom_docs"
            /\ response[w] = StaticResponse("custom_docs")

(***************************************************************************)
(* C13. Every POST /predict gets exactly one response, decided by the      *)
(* stage reached: 200 iff validation passed and model.predict returned,    *)
(* 4xx iff validation failed, 5xx iff validation passed and model.predict  *)
(* raised; model.predict is called at most once and a response, once       *)
(* given, is not replaced.                                                 *)
(***************************************************************************)
Invalid(w) == BodyErrors(Body(w), pydantic) # {}
Raised(w) == ~Invalid(w) /\ calls[w] >= 1 /\ TransformRaises(model, df[w])
Returned(w) == ~Invalid(w) /\ calls[w] >= 1 /\ ~TransformRaises(model, df[w])

C13_OneResponsePerStage ==
    /\ [](\A w \in Workers :
            /\ Predicting(w) => calls[w] <= 1
            /\ Predicting(w) /\ pc[w] # "done" => response[w] = NoResponse
            /\ Finished(w) =>
                  /\ response[w].status \in {200} \cup ClientError \cup ServerError
                  /\ response[w].status = 200 <=> Returned(w)
                  /\ response[w].status \in ClientError <=> Invalid(w)
                  /\ response[w].status \in ServerError <=> Raised(w))
    /\ [][\A w \in Workers :
            response[w] # NoResponse =>
                response'[w] = response[w] \/ (pc[w] = "done" /\ pc'[w] = "idle")]_vars

C13_Witness ==
    \E w \in Workers :
        /\ Finished(w)
        /\ Raised(w)
        /\ calls[w] = 1
        /\ response[w].status = 500


(***************************************************************************)
(*                 THE DASHBOARD (src/dashboard/app.py, tab 3)             *)
(***************************************************************************)

(***************************************************************************)
(* The description custom_docs returns: the properties of a record with    *)
(* their types, and the list of required names.  Its example record is     *)
(* ExampleRecord.                                                          *)
(***************************************************************************)
DocsProperties ==
    << [name |-> "mileage", type |-> "float"],
       [name |-> "engine_power", type |-> "float"],
       [name |-> "model_key", type |-> "string"],
       [name |-> "fuel", type |-> "string"],
       [name |-> "paint_color", type |-> "string"],
       [name |-> "car_type", type |-> "string"],
       [name |-> "private_parking_available", type |-> "boolean"],
       [name |-> "has_gps", type |-> "boolean"],
       [name |-> "has_air_conditioning", type |-> "boolean"],
       [name |-> "automatic_car", type |-> "boolean"],
       [name |-> "has_getaround_connect", type |-> "boolean"],
       [name |-> "has_speed_regulator", type |-> "boolean"],
       [name |-> "winter_tires", type |-> "boolean"] >>

DocsRequired ==
    << "mileage", "engine_power", "model_key", "fuel", "paint_color", "car_type",
       "private_parking_available", "has_gps", "has_air_conditioning", "automatic_car",
       "has_getaround_connect", "has_speed_regulator", "winter_tires" >>

(***************************************************************************)
(* The form: two number inputs (not below 0.0), four select boxes filled   *)
(* from the pricing dataset, seven checkboxes.                             *)
(***************************************************************************)
Forms ==
    [mileage : {0, 700}, engine_power : {27}, model_key : {"Citroen", "Renault"},
     fuel : {"diesel", "petrol"}, paint_color : {"black"}, car_type : {"sedan"},
     private_parking_available : {TRUE}, has_gps : BOOLEAN,
     has_air_conditioning : {FALSE}, automatic_car : {FALSE},
     has_getaround_connect : {TRUE}, has_speed_regulator : {FALSE},
     winter_tires : BOOLEAN]

input_data_without_tires(form) ==
    << Pair("mileage", Num(form.mileage)), Pair("engine_power", Num(form.engine_power)),
       Pair("model_key", Str(form.model_key)), Pair("fuel", Str(form.fuel)),
       Pair("paint_color", Str(form.paint_color)), Pair("car_type", Str(form.car_type)),
       Pair("private_parking_available", Bool(form.private_parking_available)),
       Pair("has_gps", Bool(form.has_gps)),
       Pair("has_air_conditioning", Bool(form.has_air_conditioning)),
       Pair("automatic_car", Bool(form.automatic_car)),
       Pair("has_getaround_connect", Bool(form.has_getaround_connect)),
       Pair("has_speed_regulator", Bool(form.has_speed_regulator)) >>

input_data(form) ==
    << Pair("mileage", Num(form.mileage)), Pair("engine_power", Num(form.engine_power)),
       Pair("model_key", Str(form.model_key)), Pair("fuel", Str(form.fuel)),
       Pair("paint_color", Str(form.paint_color)), Pair("car_type", Str(form.car_type)),
       Pair("private_parking_available", Bool(form.private_parking_available)),
       Pair("has_gps", Bool(form.has_gps)),
       Pair("has_air_conditioning", Bool(form.has_air_conditioning)),
       Pair("automatic_car", Bool(form.automatic_car)),
       Pair("has_getaround_connect", Bool(form.has_getaround_connect)),
       Pair("has_speed_regulator", Bool(form.has_speed_regulator)),
       Pair("winter_tires", Bool(form.winter_tires)) >>

(***************************************************************************)
(* What requests.post may return for a request: the service's answer, or   *)
(* an answer produced on the way (a gateway's error page, a page that is   *)
(* no JSON, a body without predictions).                                   *)
(***************************************************************************)
Replies(req) ==
    { Alone(req, model, pydantic),
      Response(422, "validation_error", <<>>, {}),
      Response(500, "server_error", <<>>, {}),
      Response(502, "html", <<>>, {}),
      Response(200, "html", <<>>, {}),
      Response(200, "prediction", <<>>, {}) }

Message(kind, value) == [kind |-> kind, value |-> value]

api == <<model, started, loads, pydantic, pool, history, pc, request, data, df, Xt,
         predictions, response, calls>>

(***************************************************************************)
(* Lines 276-295: the form is submitted, input_data is built and posted    *)
(* as a batch of one record.                                               *)
(***************************************************************************)
Submit ==
    /\ dashboard.pc = "form"
    /\ \E form \in Forms :
          dashboard' = [dashboard EXCEPT
              !.pc = "posted",
              !.input_data = input_data(form),
              !.posts = Append(@, Post([hasInput |-> TRUE, input |-> <<input_data(form)>>]))]
    /\ UNCHANGED api

(***************************************************************************)
(* requests.post returns a reply or raises.                                *)
(***************************************************************************)
Answer ==
    /\ dashboard.pc = "posted"
    /\ \/ \E r \in Replies(dashboard.posts[Len(dashboard.posts)]) :
             dashboard' = [dashboard EXCEPT !.pc = "returned", !.reply = r]
       \/ dashboard' = [dashboard EXCEPT !.pc = "returned", !.raised = TRUE]
    /\ UNCHANGED api

(***************************************************************************)
(* Lines 295-302.  A variant reads the prediction whatever the status.     *)
(***************************************************************************)
CanRead(reply) == reply.kind = "prediction" /\ Len(reply.prediction) >= 1

ShowUnchecked ==
    /\ dashboard.pc = "returned"
    /\ dashboard' =
          IF dashboard.raised
          THEN [dashboard EXCEPT !.pc = "shown", !.shown = Append(@, Message("error", 0))]
          ELSE IF CanRead(dashboard.reply)
               THEN [dashboard EXCEPT
                        !.pc = "shown", !.reads = @ + 1,
                        !.shown = Append(@, Message("success", dashboard.reply.prediction[1]))]
               ELSE [dashboard EXCEPT
                        !.pc = "shown", !.reads = @ + 1,
                        !.shown = Append(@, Message("error", 0))]
    /\ UNCHANGED api

Show ==
    /\ dashboard.pc = "returned"
    /\ dashboard' =
          IF dashboard.raised
          THEN [dashboard EXCEPT !.pc = "shown", !.shown = Append(@, Message("error", 0))]
          ELSE IF dashboard.reply.status = 200
               THEN IF CanRead(dashboard.reply)
                    THEN [dashboard EXCEPT
                             !.pc = "shown", !.reads = @ + 1,
                             !.shown = Append(@, Message("success",
                                                         dashboard.reply.prediction[1]))]
                    ELSE [dashboard EXCEPT
                             !.pc = "shown", !.reads = @ + 1,
                             !.shown = Append(@, Message("error", 0))]
               ELSE [dashboard EXCEPT
                        !.pc = "shown",
                        !.shown = Append(@, Message("api_error", dashboard.reply.status))]
    /\ UNCHANGED api

(***************************************************************************)
(* The script runs again and shows the empty form.                         *)
(***************************************************************************)
Rerun ==
    /\ dashboard.pc = "shown"
    /\ dashboard' = FormShown
    /\ UNCHANGED api

InitDash ==
    /\ model \in Artifacts
    /\ started = TRUE
    /\ loads = 1
    /\ pydantic \in {1, 2}
    /\ pool = {1}
    /\ Idle

NextDash == Submit \/ Answer \/ Show \/ Rerun

SpecDash == InitDash /\ [][NextDash]_vars

(***************************************************************************)
(* C14. The statements of the feature schema agree: the fields CarFeatures *)
(* declares, the names the /docs description requires and describes, the   *)
(* keys of the documented example record and the keys of the record the    *)
(* dashboard sends are the same 13 names, 2 of them float, 4 string and 7  *)
(* boolean.                                                                *)
(***************************************************************************)
DocsType(type) == IF type = "str" THEN "string" ELSE IF type = "bool" THEN "boolean" ELSE type
Count(type) == Cardinality({i \in DOMAIN CarFeatures : CarFeatures[i].type = type})

C14_SchemaStatementsAgree ==
    /\ Cardinality(FieldNames) = 13
    /\ Len(CarFeatures) = 13
    /\ Count("float") = 2 /\ Count("str") = 4 /\ Count("bool") = 7
    /\ Range(DocsRequired) = FieldNames
    /\ Len(DocsRequired) = 13
    /\ Len(DocsProperties) = 13
    /\ \A i \in DOMAIN CarFeatures :
          /\ DocsProperties[i].name = CarFeatures[i].name
          /\ DocsProperties[i].type = DocsType(CarFeatures[i].type)
    /\ Keys(ExampleRecord) = FieldNames
    /\ Len(ExampleRecord) = 13
    /\ \A i \in DOMAIN dashboard.posts :
          \A j \in DOMAIN dashboard.posts[i].body.input :
              /\ Keys(dashboard.posts[i].body.input[j]) = FieldNames
              /\ Len(dashboard.posts[i].body.input[j]) = 13
              /\ \A f \in FieldNames :
                    Get(dashboard.posts[i].body.input[j], f).k = JsonKind(FieldType(f))

C14_Witness ==
    /\ dashboard.pc = "posted"
    /\ Len(dashboard.posts) = 1
    /\ Keys(dashboard.posts[1].body.input[1]) = Range(DocsRequired)
    /\ Get(dashboard.posts[1].body.input[1], "winter_tires") = Bool(FALSE)

(***************************************************************************)
(* C15. On a form submission the dashboard sends exactly one POST to       *)
(* /predict with a batch of one record and shows exactly one outcome: the  *)
(* price prediction[0] only for status 200, an API error carrying the      *)
(* status for any other status, an error message when the call or the      *)
(* reading of the reply raises; prediction[0] is never read from a reply   *)
(* whose status is not 200.                                                *)
(***************************************************************************)
C15_OneOutcome ==
    /\ dashboard.pc = "form" => dashboard.posts = <<>>
    /\ dashboard.pc # "form" =>
          /\ Len(dashboard.posts) = 1
          /\ dashboard.posts[1].method = "POST"
          /\ dashboard.posts[1].path = "/predict"
          /\ dashboard.posts[1].body.hasInput
          /\ dashboard.posts[1].body.input = <<dashboard.input_data>>
    /\ dashboard.pc \in {"posted", "returned"} => dashboard.shown = <<>> /\ dashboard.reads = 0
    /\ dashboard.pc = "shown" =>
          /\ Len(dashboard.shown) = 1
          /\ dashboard.raised =>
                dashboard.shown[1].kind = "error" /\ dashboard.reads = 0
          /\ ~dashboard.raised /\ dashboard.reply.status # 200 =>
                /\ dashboard.shown[1] = Message("api_error", dashboard.reply.status)
                /\ dashboard.reads = 0
          /\ ~dashboard.raised /\ dashboard.reply.status = 200 =>
                IF dashboard.reply.kind = "prediction" /\ dashboard.reply.prediction # <<>>
                THEN dashboard.shown[1] = Message("success", dashboard.reply.prediction[1])
                ELSE dashboard.shown[1].kind = "error"
          /\ dashboard.shown[1].kind = "success" =>
                ~dashboard.raised /\ dashboard.reply.status = 200

C15_Witness ==
    /\ dashboard.pc = "shown"
    /\ ~dashboard.raised
    /\ dashboard.reply.status = 502
    /\ dashboard.shown = <<Message("api_error", 502)>>
    /\ dashboard.reads = 0

=============================================================================
